---- MODULE Spec2Model ----
(***************************************************************************)
(* Model of the deep-image-matching pipeline driver, src/main.py, and of   *)
(* the collaborators it drives (pair generation, upright rotation and its  *)
(* inverse, the COLMAP database assembler, the Config merge exercised by   *)
(* src/tests/test_config.py).                                              *)
(*                                                                         *)
(* Spec       main(): one action per statement of src/main.py, with the    *)
(*            database assembler's writes as the steps of export_to_colmap *)
(* SpecRot    the rotation coordinate maps (normalize, then restore)       *)
(* SpecPairs  the pair-generation strategies                               *)
(* SpecConfig Config(args): pipeline defaults overlaid by the user's YAML  *)
(***************************************************************************)
EXTENDS Integers, Sequences, FiniteSets, TLC

VARIABLES
    config,               \* parse_config(): [upright, skip_reconstruction]
    pycolmap_importable,  \* environment: does import_module("pycolmap") succeed
    pc,                   \* the statement of main() about to run
    pair_path,            \* main.py:36
    feature_path,         \* main.py:45
    match_path,           \* main.py:49
    database_path,        \* main.py:58
    use_pycolmap,         \* main.py:71/76, "unbound" until assigned
    rotated,              \* the extractor reads the upright copies of the images
    keypoints,            \* the keypoint artifact behind feature_path
    matches,              \* the match artifact behind match_path
    db,                   \* the database file behind database_path
    wstep,                \* the assembler's position in its write order
    exportSnapshot,       \* the keypoint artifact as export_to_colmap received it
    calls,                \* the stage calls main() has made, in order, with arguments
    logged,               \* logger.error messages
    timer,                \* timer.update / timer.print labels
    raised,               \* the exception that left main(), "none" while it runs
    rot,                  \* SpecRot: one coordinate through normalize and restore
    pg,                   \* SpecPairs: one run of generate_pairs
    cf                    \* SpecConfig: one construction of Config

vars == <<config, pycolmap_importable, pc, pair_path, feature_path, match_path,
          database_path, use_pycolmap, rotated, keypoints, matches, db, wstep,
          exportSnapshot, calls, logged, timer, raised, rot, pg, cf>>

----------------------------------------------------------------------------
(* Bounds *)

NumImages == 2
MaxKp == 1

Images == 1..NumImages

----------------------------------------------------------------------------
(* main(): artifacts and arguments *)

Unset == "unset"
NoArg == "-"

PairFile == "pairs.txt"
FeatureFile == "features.h5"
MatchFile == "matches.h5"

\* main.py:58  database_path = output_dir / "database.db"
ExportDatabasePath == "database.db"

ReconstructionDatabase_SameAsExport == "database.db"
\* main.py:82  database = output_dir / "database_pycolmap.db"
ReconstructionDatabase == "database_pycolmap.db"

Call(stage, pp, fp, mp, dbp) ==
    [stage |-> stage, pair_path |-> pp, feature_path |-> fp, match_path |-> mp,
     database |-> dbp]

NoDb == [exists |-> FALSE, cameras |-> {}, images |-> {}, keypoints |-> {},
         matches |-> {}, kpFrame |-> "none"]

NoKeypoints == [frame |-> "none", n |-> [i \in Images |-> 0], writes |-> 0]

\* What the matcher may hand over: index pairs (i, j) between the two images of a
\* pair a < b. The matcher is a black box, so a record may name an unknown image
\* (NumImages + 1) or an index past the image's keypoints; the assembler is what
\* validates. The match artifact holds at most two such records.
MatchRecs == {r \in [a : 1..(NumImages + 1), b : 1..(NumImages + 1),
                     i : 1..MaxKp, j : 1..MaxKp] : r.a < r.b}

MatchSets == {{}} \cup {{r, s} : r \in MatchRecs, s \in MatchRecs}

RotIdle == [phase |-> "idle"]
PgIdle == [phase |-> "idle"]
CfIdle == [phase |-> "idle"]

Init ==
    /\ config \in [upright : BOOLEAN, skip_reconstruction : BOOLEAN]
    /\ pycolmap_importable \in BOOLEAN
    /\ pc = "generate_pairs"
    /\ pair_path = Unset
    /\ feature_path = Unset
    /\ match_path = Unset
    /\ database_path = Unset
    /\ use_pycolmap = "unbound"
    /\ rotated = FALSE
    /\ keypoints = NoKeypoints
    /\ matches = {}
    /\ db = NoDb
    /\ wstep = 0
    /\ exportSnapshot = NoKeypoints
    /\ calls = <<>>
    /\ logged = <<>>
    /\ timer = <<>>
    /\ raised = "none"
    /\ rot = RotIdle
    /\ pg = PgIdle
    /\ cf = CfIdle

----------------------------------------------------------------------------
(* main(): one action per statement *)

\* main.py:36-37
GeneratePairs ==
    /\ pc = "generate_pairs"
    /\ pair_path' = PairFile
    /\ calls' = Append(calls, Call("generate_pairs", NoArg, NoArg, NoArg, NoArg))
    /\ timer' = Append(timer, "generate_pairs")
    /\ pc' = "rotate_upright_images"
    /\ UNCHANGED <<config, pycolmap_importable, feature_path, match_path, database_path,
                   use_pycolmap, rotated, keypoints, matches, db, wstep, exportSnapshot, logged, raised,
                   rot, pg, cf>>

\* main.py:40-42
RotateUprightImages ==
    /\ pc = "rotate_upright_images"
    /\ IF config.upright
         THEN /\ rotated' = TRUE
              /\ calls' = Append(calls, Call("rotate_upright_images", NoArg, NoArg, NoArg, NoArg))
              /\ timer' = Append(timer, "rotate_upright_images")
         ELSE UNCHANGED <<rotated, calls, timer>>
    /\ pc' = "extract_features"
    /\ UNCHANGED <<config, pycolmap_importable, pair_path, feature_path, match_path,
                   database_path, use_pycolmap, keypoints, matches, db, wstep, exportSnapshot, logged,
                   raised, rot, pg, cf>>

\* main.py:45-46; the extractor writes keypoints in the frame of the images it reads
ExtractFeatures ==
    /\ pc = "extract_features"
    /\ \E n \in [Images -> 0..MaxKp] :
         keypoints' = [frame |-> IF rotated THEN "rotated" ELSE "original",
                       n |-> n, writes |-> 1]
    /\ feature_path' = FeatureFile
    /\ calls' = Append(calls, Call("extract_features", NoArg, NoArg, NoArg, NoArg))
    /\ timer' = Append(timer, "extract_features")
    /\ pc' = "match_pairs"
    /\ UNCHANGED <<config, pycolmap_importable, pair_path, match_path, database_path,
                   use_pycolmap, rotated, matches, db, wstep, exportSnapshot, logged, raised, rot, pg, cf>>

MatchPairsFeatureArg_PairPath == pair_path
\* main.py:49  img_matching.match_pairs(feature_path)
MatchPairsFeatureArg == feature_path

\* main.py:49-50
MatchPairs ==
    /\ pc = "match_pairs"
    /\ \E m \in MatchSets : matches' = m
    /\ match_path' = MatchFile
    /\ calls' = Append(calls, Call("match_pairs", NoArg, MatchPairsFeatureArg, NoArg, NoArg))
    /\ timer' = Append(timer, "matching")
    /\ pc' = "rotate_back_features"
    /\ UNCHANGED <<config, pycolmap_importable, pair_path, feature_path, database_path,
                   use_pycolmap, rotated, keypoints, db, wstep, exportSnapshot, logged, raised, rot, pg, cf>>

RotateBackCondition_Never == FALSE
\* main.py:53  if upright:
RotateBackCondition == config.upright

\* main.py:53-55; rotate_back_features rewrites the keypoints in the original frame
RotateBackFeatures ==
    /\ pc = "rotate_back_features"
    /\ IF RotateBackCondition
         THEN /\ keypoints' = [keypoints EXCEPT !.frame = "original", !.writes = @ + 1]
              /\ calls' = Append(calls, Call("rotate_back_features", NoArg, feature_path,
                                             NoArg, NoArg))
              /\ timer' = Append(timer, "rotate_back_features")
         ELSE UNCHANGED <<keypoints, calls, timer>>
    /\ pc' = "export_to_colmap"
    /\ UNCHANGED <<config, pycolmap_importable, pair_path, feature_path, match_path,
                   database_path, use_pycolmap, rotated, matches, db, wstep, exportSnapshot, logged,
                   raised, rot, pg, cf>>

----------------------------------------------------------------------------
(* export_to_colmap: the database assembler *)

ValidMatch(m) ==
    /\ m.a \in Images
    /\ m.b \in Images
    /\ m.i <= keypoints.n[m.a]
    /\ m.j <= keypoints.n[m.b]

AssemblerWriteOrder_MatchesFirst == <<"cameras_images", "matches", "keypoints">>
\* cameras and images first, then keypoints, then matches
AssemblerWriteOrder == <<"cameras_images", "keypoints", "matches">>

\* single_camera=True (main.py:65): one camera shared by all images
WriteTable(d, table) ==
    CASE table = "cameras_images" ->
           [d EXCEPT !.exists = TRUE,
                     !.cameras = {1},
                     !.images = {[image_id |-> i, camera_id |-> 1] : i \in Images}]
      [] table = "keypoints" ->
           [d EXCEPT !.exists = TRUE,
                     !.keypoints = {<<i, k>> : i \in Images, k \in 1..MaxKp} \cap
                                   {r \in Images \X (1..MaxKp) : r[2] <= keypoints.n[r[1]]},
                     !.kpFrame = keypoints.frame]
      [] table = "matches" ->
           [d EXCEPT !.exists = TRUE, !.matches = matches]

AfterExportError_Swallowed == "skip_reconstruction_test"
\* main.py:59-66: the call is not inside any try, so a failure leaves main()
AfterExportError == "raised"

\* main.py:58-66, the call
ExportToColmap ==
    /\ pc = "export_to_colmap"
    /\ database_path' = ExportDatabasePath
    /\ calls' = Append(calls, Call("export_to_colmap", NoArg, feature_path, match_path,
                                   ExportDatabasePath))
    /\ exportSnapshot' = keypoints
    /\ pc' = "assembler_validate"
    /\ UNCHANGED <<config, pycolmap_importable, pair_path, feature_path, match_path,
                   use_pycolmap, rotated, keypoints, matches, db, wstep, logged, timer,
                   raised, rot, pg, cf>>

\* the assembler validates every match before it writes anything; an unknown image
\* or an out-of-range keypoint index is a fatal IntegrityError
AssemblerValidate ==
    /\ pc = "assembler_validate"
    /\ IF \A m \in matches : ValidMatch(m)
         THEN /\ pc' = "assembler_write"
              /\ wstep' = 1
              /\ UNCHANGED raised
         ELSE /\ raised' = "IntegrityError"
              /\ pc' = AfterExportError
              /\ UNCHANGED wstep
    /\ UNCHANGED <<config, pycolmap_importable, pair_path, feature_path, match_path,
                   database_path, use_pycolmap, rotated, keypoints, matches, db,
                   exportSnapshot, calls, logged, timer, rot, pg, cf>>

\* one committed write per table, in AssemblerWriteOrder; main.py:67 after the last
AssemblerWrite ==
    /\ pc = "assembler_write"
    /\ db' = WriteTable(db, AssemblerWriteOrder[wstep])
    /\ IF wstep = Len(AssemblerWriteOrder)
         THEN /\ pc' = "skip_reconstruction_test"
              /\ timer' = Append(timer, "export_to_colmap")
              /\ UNCHANGED wstep
         ELSE /\ wstep' = wstep + 1
              /\ UNCHANGED <<pc, timer>>
    /\ UNCHANGED <<config, pycolmap_importable, pair_path, feature_path, match_path,
                   database_path, use_pycolmap, rotated, keypoints, matches,
                   exportSnapshot, calls, logged, raised, rot, pg, cf>>

----------------------------------------------------------------------------
(* main(): the optional reconstruction *)

\* main.py:70-71
TestSkipReconstruction ==
    /\ pc = "skip_reconstruction_test"
    /\ IF ~config.skip_reconstruction
         THEN /\ use_pycolmap' = "True"
              /\ pc' = "import_module"
         ELSE /\ UNCHANGED use_pycolmap
              /\ pc' = "use_pycolmap_test"
    /\ UNCHANGED <<config, pycolmap_importable, pair_path, feature_path, match_path,
                   database_path, rotated, keypoints, matches, db, wstep, exportSnapshot,
                   calls, logged, timer, raised, rot, pg, cf>>

UsePycolmapOnImportError_StillTrue == "True"
\* main.py:76  use_pycolmap = False
UsePycolmapOnImportError == "False"

\* main.py:72-76
ImportPycolmap ==
    /\ pc = "import_module"
    /\ IF pycolmap_importable
         THEN UNCHANGED <<use_pycolmap, logged>>
         ELSE /\ logged' = Append(logged, "Pycomlap is not available, skipping reconstruction")
              /\ use_pycolmap' = UsePycolmapOnImportError
    /\ calls' = Append(calls, Call("import_module", NoArg, NoArg, NoArg, NoArg))
    /\ pc' = "use_pycolmap_test"
    /\ UNCHANGED <<config, pycolmap_importable, pair_path, feature_path, match_path,
                   database_path, rotated, keypoints, matches, db, wstep, exportSnapshot,
                   timer, raised, rot, pg, cf>>

\* main.py:78  if use_pycolmap:  -- reading an unassigned local raises UnboundLocalError
TestUsePycolmap ==
    /\ pc = "use_pycolmap_test"
    /\ CASE use_pycolmap = "unbound" -> /\ raised' = "UnboundLocalError"
                                        /\ pc' = "raised"
         [] use_pycolmap = "True" -> /\ pc' = "reconstruction"
                                     /\ UNCHANGED raised
         [] use_pycolmap = "False" -> /\ pc' = "timer_print"
                                      /\ UNCHANGED raised
    /\ UNCHANGED <<config, pycolmap_importable, pair_path, feature_path, match_path,
                   database_path, use_pycolmap, rotated, keypoints, matches, db, wstep,
                   exportSnapshot, calls, logged, timer, rot, pg, cf>>

\* main.py:79-136
Reconstruction ==
    /\ pc = "reconstruction"
    /\ calls' = Append(calls, Call("reconstruction", pair_path, feature_path, match_path,
                                   ReconstructionDatabase))
    /\ timer' = Append(timer, "pycolmap reconstruction")
    /\ pc' = "timer_print"
    /\ UNCHANGED <<config, pycolmap_importable, pair_path, feature_path, match_path,
                   database_path, use_pycolmap, rotated, keypoints, matches, db, wstep,
                   exportSnapshot, logged, raised, rot, pg, cf>>

\* main.py:173
TimerPrint ==
    /\ pc = "timer_print"
    /\ timer' = Append(timer, "print")
    /\ pc' = "done"
    /\ UNCHANGED <<config, pycolmap_importable, pair_path, feature_path, match_path,
                   database_path, use_pycolmap, rotated, keypoints, matches, db, wstep,
                   exportSnapshot, calls, logged, raised, rot, pg, cf>>

Next ==
    \/ GeneratePairs
    \/ RotateUprightImages
    \/ ExtractFeatures
    \/ MatchPairs
    \/ RotateBackFeatures
    \/ ExportToColmap
    \/ AssemblerValidate
    \/ AssemblerWrite
    \/ TestSkipReconstruction
    \/ ImportPycolmap
    \/ TestUsePycolmap
    \/ Reconstruction
    \/ TimerPrint

Spec == Init /\ [][Next]_vars

----------------------------------------------------------------------------
(* Properties of main() *)

Called(stage) == \E k \in DOMAIN calls : calls[k].stage = stage

CallIndex(stage) == CHOOSE k \in DOMAIN calls : calls[k].stage = stage

IsStage(c) == c.stage # "import_module"

StageCalls == SelectSeq(calls, IsStage)

Opt(cond, stage) == IF cond THEN <<stage>> ELSE <<>>

ExpectedStages ==
    <<"generate_pairs">>
    \o Opt(config.upright, "rotate_upright_images")
    \o <<"extract_features", "match_pairs">>
    \o Opt(config.upright, "rotate_back_features")
    \o <<"export_to_colmap">>
    \o Opt(~config.skip_reconstruction /\ pycolmap_importable, "reconstruction")

\* every Keypoint row belongs to an Image row, every Image row to a Camera row, and
\* every Match names two Image rows and a Keypoint row of each
RefIntegrity(d) ==
    /\ \A im \in d.images : im.camera_id \in d.cameras
    /\ \A k \in d.keypoints : \E im \in d.images : im.image_id = k[1]
    /\ \A m \in d.matches :
         /\ \E im \in d.images : im.image_id = m.a
         /\ \E im \in d.images : im.image_id = m.b
         /\ <<m.a, m.i>> \in d.keypoints
         /\ <<m.b, m.j>> \in d.keypoints

\* the database with all three tables written from the current artifacts
ExportedDb == WriteTable(WriteTable(WriteTable(NoDb, "cameras_images"), "keypoints"), "matches")

\* C1: when pycolmap cannot be imported and skip_reconstruction is false, main()
\* logs the error, never calls reconstruction.main, raises nothing because of it,
\* and ends at timer.print with the exported database as the last artifact.
C1_ImportFailureRecoverable ==
    (~config.skip_reconstruction /\ ~pycolmap_importable) =>
        /\ ~Called("reconstruction")
        /\ pc # "reconstruction"
        /\ raised \in {"none", "IntegrityError"}
        /\ Called("import_module") =>
             /\ logged = <<"Pycomlap is not available, skipping reconstruction">>
             /\ use_pycolmap = "False"
             /\ raised = "none"
             /\ pc \in {"use_pycolmap_test", "timer_print", "done"}
        /\ pc = "done" =>
             /\ Called("import_module")
             /\ timer[Len(timer)] = "print"
             /\ db = ExportedDb
             /\ StageCalls[Len(StageCalls)].stage = "export_to_colmap"

C1_Witness ==
    /\ pc = "done"
    /\ ~config.skip_reconstruction
    /\ ~pycolmap_importable
    /\ Len(logged) = 1

\* C2: the stages start in the fixed order generate_pairs, rotate_upright_images
\* (if upright), extract_features, match_pairs, rotate_back_features (if upright),
\* export_to_colmap, reconstruction (if enabled and available), none twice, each
\* after the artifact of the one before it exists, and match_pairs and
\* export_to_colmap receive the feature_path and match_path the earlier stages
\* returned.
C2_StagesInOrder ==
    /\ Len(StageCalls) <= Len(ExpectedStages)
    /\ \A k \in DOMAIN StageCalls : StageCalls[k].stage = ExpectedStages[k]
    /\ \A k \in DOMAIN calls :
         /\ calls[k].stage = "match_pairs" =>
              /\ calls[k].feature_path = FeatureFile
              /\ feature_path = FeatureFile
              /\ keypoints.writes >= 1
         /\ calls[k].stage = "export_to_colmap" =>
              /\ calls[k].feature_path = FeatureFile
              /\ calls[k].match_path = MatchFile
              /\ match_path = MatchFile
         /\ calls[k].stage = "reconstruction" =>
              /\ db = ExportedDb
              /\ calls[k].pair_path = PairFile
    /\ pc \in {"assembler_validate", "assembler_write"} =>
         StageCalls[Len(StageCalls)].stage = "export_to_colmap"
    /\ pc = "done" => Len(StageCalls) = Len(ExpectedStages)

C2_Witness ==
    /\ pc = "done"
    /\ config.upright
    /\ Called("reconstruction")
    /\ Len(StageCalls) = 7

\* C3: rotate_back_features is called exactly in the runs that called
\* rotate_upright_images (the upright ones), after extract_features and match_pairs
\* and before export_to_colmap; the assembler only ever reads keypoints in the
\* original frame, and the keypoint artifact is not written after the assembler
\* received it.
C3_RestorePairedWithNormalize ==
    /\ Called("rotate_back_features") =>
         /\ config.upright
         /\ Called("rotate_upright_images")
         /\ CallIndex("rotate_upright_images") < CallIndex("extract_features")
         /\ CallIndex("extract_features") < CallIndex("rotate_back_features")
         /\ CallIndex("match_pairs") < CallIndex("rotate_back_features")
    /\ Called("export_to_colmap") =>
         /\ Called("rotate_back_features") <=> Called("rotate_upright_images")
         /\ Called("rotate_back_features") <=> config.upright
         /\ Called("rotate_back_features") =>
              CallIndex("rotate_back_features") < CallIndex("export_to_colmap")
         /\ exportSnapshot.frame = "original"
         /\ keypoints = exportSnapshot
    /\ db.kpFrame \in {"none", "original"}

C3_Witness ==
    /\ config.upright
    /\ Called("rotate_back_features")
    /\ db.kpFrame = "original"
    /\ keypoints.writes = 2
    /\ pc = "done"

\* C4 as stated: the database path passed to reconstruction.main is the
\* database_path export_to_colmap wrote in the same run, and reconstruction is only
\* invoked after export_to_colmap has returned.
C4_Original ==
    \A k \in DOMAIN calls :
        calls[k].stage = "reconstruction" =>
            /\ calls[k].database = database_path
            /\ db = ExportedDb

\* C4 amended: reconstruction.main is only invoked after export_to_colmap has
\* returned, with the feature_path and match_path export_to_colmap was given, but
\* the database path it receives (database_pycolmap.db) is not the database_path
\* (database.db) export_to_colmap wrote.
C4_Amended ==
    \A k \in DOMAIN calls :
        calls[k].stage = "reconstruction" =>
            /\ Called("export_to_colmap")
            /\ CallIndex("export_to_colmap") < k
            /\ db = ExportedDb
            /\ database_path = "database.db"
            /\ calls[CallIndex("export_to_colmap")].database = database_path
            /\ calls[k].database = "database_pycolmap.db"
            /\ calls[k].database # database_path
            /\ calls[k].feature_path = calls[CallIndex("export_to_colmap")].feature_path
            /\ calls[k].match_path = calls[CallIndex("export_to_colmap")].match_path

C4_Witness == Called("reconstruction") /\ db.exists

\* C7: at every committed state of the database every Keypoint row belongs to an
\* Image row and every Match references existing images and in-range keypoints;
\* keypoints are only present once cameras and images are, matches only once
\* keypoints have been written.
C7_RefIntegrityAtEveryCommit ==
    /\ RefIntegrity(db)
    /\ db.exists => (db.images # {} /\ db.cameras # {})
    /\ db.kpFrame # "none" => db.images # {}
    /\ db.matches # {} => db.kpFrame # "none"

C7_Witness ==
    /\ pc = "assembler_write"
    /\ db.keypoints # {}
    /\ db.matches = {}
    /\ matches # {}

\* C9: if export_to_colmap fails with an IntegrityError, no database file is left,
\* partial or otherwise, the failure leaves main() uncaught, and reconstruction is
\* neither imported nor invoked; a match set with an invalid record never gets past
\* validation.
C9_FailedExportAborts ==
    /\ raised = "IntegrityError" =>
         /\ db = NoDb
         /\ pc = "raised"
         /\ ~Called("reconstruction")
         /\ ~Called("import_module")
         /\ timer[Len(timer)] # "print"
    /\ (\E m \in matches : ~ValidMatch(m)) =>
         /\ ~db.exists
         /\ pc \in {"rotate_back_features", "export_to_colmap", "assembler_validate", "raised"}

C9_Witness ==
    /\ raised = "IntegrityError"
    /\ \E m \in matches : ValidMatch(m)
    /\ \E m \in matches : ~ValidMatch(m)

\* C10 as stated: for every combination of upright, skip_reconstruction and pycolmap
\* being importable, if every stage succeeds main() reaches timer.print, every
\* variable it reads has been assigned (use_pycolmap at 'if use_pycolmap'), and with
\* skip_reconstruction true the engine is neither imported nor invoked.
C10_Original ==
    /\ pc = "use_pycolmap_test" => use_pycolmap # "unbound"
    /\ raised \in {"none", "IntegrityError"}
    /\ config.skip_reconstruction => (~Called("import_module") /\ ~Called("reconstruction"))

----------------------------------------------------------------------------
(* The rotation coordinate maps: rotate_upright_images, rotate_back_features *)

MaxDim == 3

Angles == {0, 90, 180, 270}

mainVars == <<config, pycolmap_importable, pc, pair_path, feature_path, match_path,
              database_path, use_pycolmap, rotated, keypoints, matches, db, wstep,
              exportSnapshot, calls, logged, timer, raised>>

\* main() is not running
MainIdle ==
    /\ config = [upright |-> FALSE, skip_reconstruction |-> FALSE]
    /\ pycolmap_importable = FALSE
    /\ pc = "idle"
    /\ pair_path = Unset
    /\ feature_path = Unset
    /\ match_path = Unset
    /\ database_path = Unset
    /\ use_pycolmap = "unbound"
    /\ rotated = FALSE
    /\ keypoints = NoKeypoints
    /\ matches = {}
    /\ db = NoDb
    /\ wstep = 0
    /\ exportSnapshot = NoKeypoints
    /\ calls = <<>>
    /\ logged = <<>>
    /\ timer = <<>>
    /\ raised = "none"

\* the size of the upright copy of a W x H image rotated by theta
RotatedSize(theta, W, H) == IF theta \in {90, 270} THEN <<H, W>> ELSE <<W, H>>

\* Where the pixel p = (x, y) of the original W x H image lands in the rotated copy:
\* the image content is physically rotated by theta, a quarter turn mapping the
\* W x H grid onto the H x W grid.
RotForward(theta, W, H, p) ==
    CASE theta = 0 -> p
      [] theta = 90 -> <<H - 1 - p[2], p[1]>>
      [] theta = 180 -> <<W - 1 - p[1], H - 1 - p[2]>>
      [] theta = 270 -> <<p[2], W - 1 - p[1]>>

RotRestore_OffByOne(theta, W, H, p) ==
    CASE theta = 0 -> p
      [] theta = 90 -> <<p[2], W - p[1]>>
      [] theta = 180 -> <<W - p[1], H - p[2]>>
      [] theta = 270 -> <<W - p[2], p[1]>>
\* The restore map for a rotation theta and ORIGINAL dimensions (W, H):
\* 0: identity; 90: (y, W - 1 - x); 180: (W - 1 - x, H - 1 - y);
\* 270: the inverse of the 90 map, (W - 1 - y, x).
RotRestore(theta, W, H, p) ==
    CASE theta = 0 -> p
      [] theta = 90 -> <<p[2], W - 1 - p[1]>>
      [] theta = 180 -> <<W - 1 - p[1], H - 1 - p[2]>>
      [] theta = 270 -> <<W - 1 - p[2], p[1]>>

InitRot ==
    /\ MainIdle
    /\ pg = PgIdle
    /\ cf = CfIdle
    /\ \E W \in 1..MaxDim, H \in 1..MaxDim, theta \in Angles :
         \E x \in 0..(W - 1), y \in 0..(H - 1) :
            rot = [phase |-> "original", W |-> W, H |-> H, theta |-> theta,
                   orig |-> <<x, y>>, cur |-> <<x, y>>]

\* the extractor sees the keypoint in the rotated copy's frame
Normalize ==
    /\ rot.phase = "original"
    /\ rot' = [rot EXCEPT !.phase = "rotated",
                          !.cur = RotForward(rot.theta, rot.W, rot.H, rot.cur)]
    /\ UNCHANGED <<mainVars, pg, cf>>

\* rotate_back_features maps the keypoint back
Restore ==
    /\ rot.phase = "rotated"
    /\ rot' = [rot EXCEPT !.phase = "restored",
                          !.cur = RotRestore(rot.theta, rot.W, rot.H, rot.cur)]
    /\ UNCHANGED <<mainVars, pg, cf>>

NextRot == Normalize \/ Restore

SpecRot == InitRot /\ [][NextRot]_vars

InImage(p, size) == p[1] \in 0..(size[1] - 1) /\ p[2] \in 0..(size[2] - 1)

----------------------------------------------------------------------------
(* generate_pairs: the pair-generation strategies *)

MaxImgs == 4
MaxOverlap == 2
MaxLines == 2

Strategies == {"exhaustive", "sequential", "retrieval", "from_file"}

\* the orderings of the images 1..n
Orderings(n) == {o \in [1..n -> 1..n] : \A i, j \in 1..n : o[i] = o[j] => i = j}

\* the index pairs (i, j), 1 <= i < j <= n, in the order of the two nested loops
RECURSIVE IdxFrom(_, _, _)
IdxFrom(i, j, n) ==
    IF i >= n THEN <<>>
    ELSE IF j > n THEN IdxFrom(i + 1, i + 2, n)
    ELSE <<<<i, j>>>> \o IdxFrom(i, j + 1, n)

AllIdx(n) == IdxFrom(1, 2, n)

PairsAt(order, idx) == [k \in 1..Len(idx) |-> <<order[idx[k][1]], order[idx[k][2]]>>]

\* exhaustive: every unordered pair of distinct images
Exhaustive(order) == PairsAt(order, AllIdx(Len(order)))

\* sequential: the pairs (i, i+1..i+overlap) under the ordering of the images
Sequential(order, overlap) ==
    LET Near(p) == p[2] - p[1] <= overlap
    IN PairsAt(order, SelectSeq(AllIdx(Len(order)), Near))

\* retrieval: the union of every image's top-ranked neighbours, symmetrized, so an
\* edge found from both ends is one pair
Retrieval(order, top) ==
    LET Edge(p) == order[p[2]] \in top[order[p[1]]] \/ order[p[1]] \in top[order[p[2]]]
    IN PairsAt(order, SelectSeq(AllIdx(Len(order)), Edge))

\* from file: the lines of the pair file, verbatim; the only failure is a name that
\* matches no known image
FromFile(order, file) ==
    IF \A k \in DOMAIN file : file[k][1] \in 1..Len(order) /\ file[k][2] \in 1..Len(order)
    THEN [result |-> "ok", pairs |-> file]
    ELSE [result |-> "InvalidPairFile", pairs |-> <<>>]

PairInputs(order, overlap, top, file, strategy) ==
    [phase |-> "start", strategy |-> strategy, order |-> order, overlap |-> overlap,
     top |-> top, file |-> file, result |-> "none", pairs |-> <<>>]

NoTop(n) == [i \in 1..n |-> {}]

Identity(n) == [i \in 1..n |-> i]

FileLines(n) == (1..(n + 1)) \X (1..(n + 1))

InitPairs ==
    /\ MainIdle
    /\ rot = RotIdle
    /\ cf = CfIdle
    /\ \E n \in 1..MaxImgs :
         \/ \E order \in Orderings(n) :
              pg = PairInputs(order, 1, NoTop(n), <<>>, "exhaustive")
         \/ \E order \in Orderings(n), overlap \in 1..MaxOverlap :
              pg = PairInputs(order, overlap, NoTop(n), <<>>, "sequential")
         \/ \E nb \in [1..n -> 1..n] :
              /\ \A i \in 1..n : nb[i] # i
              /\ pg = PairInputs(Identity(n), 1, [i \in 1..n |-> {nb[i]}], <<>>, "retrieval")
         \/ \E len \in 0..MaxLines : \E file \in [1..len -> FileLines(n)] :
              pg = PairInputs(Identity(n), 1, NoTop(n), file, "from_file")

\* img_matching.generate_pairs() (main.py:36)
RunGeneratePairs ==
    /\ pg.phase = "start"
    /\ pg' = CASE pg.strategy = "exhaustive" ->
                    [pg EXCEPT !.phase = "done", !.result = "ok",
                               !.pairs = Exhaustive(pg.order)]
               [] pg.strategy = "sequential" ->
                    [pg EXCEPT !.phase = "done", !.result = "ok",
                               !.pairs = Sequential(pg.order, pg.overlap)]
               [] pg.strategy = "retrieval" ->
                    [pg EXCEPT !.phase = "done", !.result = "ok",
                               !.pairs = Retrieval(pg.order, pg.top)]
               [] pg.strategy = "from_file" ->
                    [pg EXCEPT !.phase = "done",
                               !.result = FromFile(pg.order, pg.file).result,
                               !.pairs = FromFile(pg.order, pg.file).pairs]
    /\ UNCHANGED <<mainVars, rot, cf>>

NextPairs == RunGeneratePairs

SpecPairs == InitPairs /\ [][NextPairs]_vars

PairSet(ps) == {ps[k] : k \in DOMAIN ps}

NoSelfPairs(ps) == \A k \in DOMAIN ps : ps[k][1] # ps[k][2]

NoBothOrders(ps) == \A k, l \in DOMAIN ps : ~(ps[k][1] = ps[l][2] /\ ps[k][2] = ps[l][1])

\* C6: for every strategy and every image set the generated pair set has no pair
\* (a, a) and never both (a, b) and (b, a); the exhaustive strategy on n distinct
\* images yields exactly n(n-1)/2 unordered pairs whatever the input ordering.
C6_Original ==
    (pg.phase = "done" /\ pg.result = "ok") =>
        /\ NoSelfPairs(pg.pairs)
        /\ NoBothOrders(pg.pairs)
        /\ pg.strategy = "exhaustive" =>
             /\ 2 * Len(pg.pairs) = Len(pg.order) * (Len(pg.order) - 1)
             /\ 2 * Cardinality(PairSet(pg.pairs)) = Len(pg.order) * (Len(pg.order) - 1)

----------------------------------------------------------------------------
(* Config(args): src/tests/test_config.py *)

Sections == {"general", "extractor", "matcher"}

\* args["quality"] -> Quality, args["tiling"] -> TileSelection
QualityOf(q) == CASE q = "high" -> "Quality.HIGH"

TileSelectionOf(t) == CASE t = "preselection" -> "TileSelection.PRESELECTION"

\* the defaults of the general section (test_config.py:48-61)
GeneralDefaults(args) ==
    [quality |-> QualityOf(args.quality),
     tile_selection |-> TileSelectionOf(args.tiling),
     tile_size |-> "(2400, 2000)",
     tile_overlap |-> "10",
     tile_preselection_size |-> "1000",
     min_matches_per_tile |-> "10",
     geom_verification |-> "GeometricVerification.PYDEGENSAC",
     gv_threshold |-> "4",
     gv_confidence |-> "0.99999",
     min_inliers_per_pair |-> "15",
     min_inlier_ratio_per_pair |-> "0.25",
     try_match_full_images |-> "False"]

\* the defaults of pipeline "superpoint+lightglue" (test_config.py:67-86); the
\* default max_keypoints is any value other than the one the user sets
PipelineDefaults(pipeline) ==
    CASE pipeline = "superpoint+lightglue" ->
        [extractor |-> [name |-> "superpoint", nms_radius |-> "3",
                        keypoint_threshold |-> "0.0005", max_keypoints |-> "default"],
         matcher |-> [name |-> "lightglue", n_layers |-> "9", mp |-> "False",
                      flash |-> "True", depth_confidence |-> "0.95",
                      width_confidence |-> "0.99", filter_threshold |-> "0.1"]]

Merge_UserSectionReplaces(default, user) ==
    IF DOMAIN user = {} THEN default ELSE user
\* one section: the defaults overlaid by what the user's YAML sets
Merge(default, user) ==
    [k \in (DOMAIN default) \cup (DOMAIN user) |->
        IF k \in DOMAIN user THEN user[k] ELSE default[k]]

\* Config(args) with the YAML file args["config_file"] read as `user`
BuildConfig(args, user) ==
    [general |-> Merge(GeneralDefaults(args), user.general),
     extractor |-> Merge(PipelineDefaults(args.pipeline).extractor, user.extractor),
     matcher |-> Merge(PipelineDefaults(args.pipeline).matcher, user.matcher)]

\* the YAML files tried: any subset of these keys, each with one of these values
UserValues ==
    [general |-> [tile_overlap : {"10", "20"}, min_matches_per_tile : {"5"}],
     extractor |-> [name : {"superpoint"}, max_keypoints : {"20000", "8000"},
                    nms_radius : {"3", "4"}],
     matcher |-> [n_layers : {"7"}, filter_threshold : {"0.1", "0.2"}]]

\* the restriction of a record to some of its keys: a YAML section
Restrict(r, keys) == [k \in keys |-> r[k]]

YamlSections(full) == {Restrict(r, keys) : r \in full, keys \in SUBSET DOMAIN (CHOOSE x \in full : TRUE)}

\* test_config.py:30-42
TestArgs == [pipeline |-> "superpoint+lightglue", quality |-> "high",
             tiling |-> "preselection"]

InitConfig ==
    /\ MainIdle
    /\ rot = RotIdle
    /\ pg = PgIdle
    /\ \E g \in YamlSections(UserValues.general), e \in YamlSections(UserValues.extractor),
          m \in YamlSections(UserValues.matcher) :
         cf = [phase |-> "args", args |-> TestArgs,
               user |-> [general |-> g, extractor |-> e, matcher |-> m],
               config |-> [general |-> <<>>, extractor |-> <<>>, matcher |-> <<>>]]

\* config = Config(args) (test_config.py:43)
ConstructConfig ==
    /\ cf.phase = "args"
    /\ cf' = [cf EXCEPT !.phase = "built", !.config = BuildConfig(cf.args, cf.user)]
    /\ UNCHANGED <<mainVars, rot, pg>>

NextConfig == ConstructConfig

SpecConfig == InitConfig /\ [][NextConfig]_vars

\* the user's YAML of the test (test_config.py:22-27)
TestYaml == [general |-> <<>>, matcher |-> <<>>,
             extractor |-> [name |-> "superpoint", max_keypoints |-> "20000"]]

====
